---------------------------- MODULE Spec2Model ----------------------------
(***************************************************************************)
(* QR code generator HTTP service (main.go).                               *)
(*                                                                         *)
(* The server registers three handlers on the default request multiplexer  *)
(* and serves every connection in its own goroutine.  A request is a       *)
(* record of method, path, query and the headers the handlers read; a      *)
(* response is what the client receives: status, headers, body.            *)
(*                                                                         *)
(* Paths are sequences of segments: "/" is << >>, "/health" is             *)
(* <<"health">>, "//health" is <<"", "health">>, "/health/" is             *)
(* <<"health", "">>.  Texts and bodies of images are sequences (of         *)
(* characters, of bytes); bodies of textual responses are strings.         *)
(***************************************************************************)
EXTENDS Integers, Sequences, FiniteSets, TLC

VARIABLES
    mainPc,       \* the statement main is at
    routes,       \* patterns registered on the default multiplexer
    qrGen,        \* the fields of the generator (QRCodeGenerator has none)
    conn,         \* per connection: the request being served and its progress
    served,       \* number of requests received by the server so far
    textPosts,    \* number of those that POST a non-empty text to generate
    encodeCalls,  \* number of invocations of qrcode.Encode so far
    logLines,     \* number of lines written by log.Printf so far
    calls         \* direct calls of GenerateQRCodeBytes (main_test.go)

vars == <<mainPc, routes, qrGen, conn, served, textPosts, encodeCalls,
          logLines, calls>>

\* what the server keeps between requests
server == <<mainPc, routes, qrGen>>

(***************************************************************************)
(* Bounds of the model.                                                    *)
(***************************************************************************)
MaxRequests == 2      \* requests received in one behaviour
MaxCalls == 3         \* direct calls in one behaviour of the unit test
EncoderCapacity == 2  \* characters the encoder can hold (scaled down)

Conns == {1, 2}       \* client connections served concurrently

(***************************************************************************)
(* Values.                                                                 *)
(***************************************************************************)
None == -1            \* an absent number (header not set, bound not given)

Nil == << >>          \* a nil byte slice

Medium == "Medium"    \* qrcode.Medium

Size == 256           \* pixel size passed to qrcode.Encode

PNGSignature == <<137, 80, 78, 71, 13, 10, 26, 10>>

StatusOK == 200
StatusPartialContent == 206
StatusMovedPermanently == 301
StatusNotModified == 304
StatusBadRequest == 400
StatusNotFound == 404
StatusMethodNotAllowed == 405
StatusPreconditionFailed == 412
StatusRequestedRangeNotSatisfiable == 416
StatusInternalServerError == 500

HealthPath == <<"health">>
GeneratePath == <<"api", "v1", "qr", "generate">>
RootPath == << >>


(***************************************************************************)
(* Texts.  A text is a sequence of characters; the empty text is << >>.    *)
(***************************************************************************)
EmptyText == << >>

Hello == <<"h", "i">>

Other == <<"A">>

\* a text one character longer than the encoder can hold
LongText == [i \in 1..(EncoderCapacity + 1) |-> "A"]

\* a text of white space and a character with a meaning in a URL
Special == <<" ", "&">>

Texts == {EmptyText, Hello, Other, LongText, Special}

(***************************************************************************)
(* The encoder, qrcode.Encode(text, level, size): PNG bytes or an error.   *)
(* It is a library outside the repository: it rejects the empty content    *)
(* and content over its capacity, and may fail while writing the image.    *)
(***************************************************************************)
NoErr == ""

PNG(text, level, size) == PNGSignature \o <<Len(text)>>

Encode(text, level, size) ==
    IF text = EmptyText
    THEN {[bytes |-> Nil, err |-> "no data to encode"]}
    ELSE IF Len(text) > EncoderCapacity
    THEN {[bytes |-> Nil, err |-> "content too long to encode"]}
    ELSE {[bytes |-> PNG(text, level, size), err |-> NoErr],
          [bytes |-> Nil, err |-> "png: write failed"]}

(***************************************************************************)
(* GenerateQRCodeBytes (main.go:17-28): the set of results a call can      *)
(* have, one for each outcome of the encoder.  A result records the bytes, *)
(* the error (its message and the cause it wraps) and the invocations of   *)
(* the encoder the call made.                                              *)
(***************************************************************************)
NilError == [msg |-> "", wraps |-> ""]

\* fmt.Errorf with %v in place of %w: the cause is formatted, not wrapped
Errorf_NotWrapped(msg, cause) == [msg |-> msg \o cause, wraps |-> ""]

\* fmt.Errorf(msg + "%w", cause); with no cause, fmt.Errorf(msg)
Errorf(msg, cause) == [msg |-> msg \o cause, wraps |-> cause]

NoResult == [bytes |-> Nil, err |-> NilError, invoked |-> << >>]

\* an invocation of the encoder: its arguments and what it returned
Invocation(text, level, size, out) ==
    [text |-> text, level |-> level, size |-> size, out |-> out]

\* GenerateQRCodeBytes without the check of the empty text
GenerateQRCodeBytes_NoEmptyCheck(text) ==
    {IF out.err # NoErr
     THEN [bytes |-> Nil,
           err |-> Errorf("failed to generate QR code: ", out.err),
           invoked |-> <<Invocation(text, Medium, Size, out)>>]
     ELSE [bytes |-> out.bytes, err |-> NilError,
           invoked |-> <<Invocation(text, Medium, Size, out)>>]
     : out \in Encode(text, Medium, Size)}

\* GenerateQRCodeBytes returning the bytes together with the error
GenerateQRCodeBytes_BytesWithError(text) ==
    IF text = EmptyText
    THEN {[bytes |-> Nil,
           err |-> Errorf("text cannot be empty", ""),
           invoked |-> << >>]}
    ELSE {IF out.err # NoErr
          THEN [bytes |-> PNGSignature,
                err |-> Errorf("failed to generate QR code: ", out.err),
                invoked |-> <<Invocation(text, Medium, Size, out)>>]
          ELSE [bytes |-> out.bytes, err |-> NilError,
                invoked |-> <<Invocation(text, Medium, Size, out)>>]
          : out \in Encode(text, Medium, Size)}

\* GenerateQRCodeBytes dropping the signature of the image
GenerateQRCodeBytes_Truncated(text) ==
    IF text = EmptyText
    THEN {[bytes |-> Nil,
           err |-> Errorf("text cannot be empty", ""),
           invoked |-> << >>]}
    ELSE {IF out.err # NoErr
          THEN [bytes |-> Nil,
                err |-> Errorf("failed to generate QR code: ", out.err),
                invoked |-> <<Invocation(text, Medium, Size, out)>>]
          ELSE [bytes |-> Tail(out.bytes), err |-> NilError,
                invoked |-> <<Invocation(text, Medium, Size, out)>>]
          : out \in Encode(text, Medium, Size)}

\* GenerateQRCodeBytes asking for the high error-correction level
GenerateQRCodeBytes_HighLevel(text) ==
    IF text = EmptyText
    THEN {[bytes |-> Nil,
           err |-> Errorf("text cannot be empty", ""),
           invoked |-> << >>]}
    ELSE {IF out.err # NoErr
          THEN [bytes |-> Nil,
                err |-> Errorf("failed to generate QR code: ", out.err),
                invoked |-> <<Invocation(text, "High", Size, out)>>]
          ELSE [bytes |-> out.bytes, err |-> NilError,
                invoked |-> <<Invocation(text, "High", Size, out)>>]
          : out \in Encode(text, "High", Size)}

GenerateQRCodeBytes(text) ==
    IF text = EmptyText
    THEN {[bytes |-> Nil,
           err |-> Errorf("text cannot be empty", ""),
           invoked |-> << >>]}
    ELSE {IF out.err # NoErr
          THEN [bytes |-> Nil,
                err |-> Errorf("failed to generate QR code: ", out.err),
                invoked |-> <<Invocation(text, Medium, Size, out)>>]
          ELSE [bytes |-> out.bytes, err |-> NilError,
                invoked |-> <<Invocation(text, Medium, Size, out)>>]
          : out \in Encode(text, Medium, Size)}

(***************************************************************************)
(* Requests.                                                               *)
(***************************************************************************)
Methods == {"GET", "POST", "HEAD", "DELETE"}

\* paths that are clean and match no registered route exactly
UnknownPaths ==
    {<<"api", "v2", "qr", "generate">>,           \* another API version
     <<"api", "v1", "generate">>,                 \* a missing segment
     <<"api", "v1", "qr", "generate", "extra">>,  \* an extra segment
     <<"API", "V1", "QR", "GENERATE">>,           \* another letter case
     <<"health", "">>}                            \* /health/

\* paths with an empty or a dot segment
UncleanPaths ==
    {<<"", "health">>,                            \* //health
     <<"health", "..", "nonexistent">>}           \* /health/../nonexistent

Paths == {RootPath, HealthPath, GeneratePath} \cup UnknownPaths
             \cup UncleanPaths

\* a query string is its sequence of key=value pairs, in order
Param(k, v) == [key |-> k, value |-> v]

NoQuery == << >>

TextHello == <<Param("text", Hello)>>

Queries ==
    {NoQuery,
     TextHello,
     <<Param("text", Other)>>,
     <<Param("text", LongText)>>,
     <<Param("text", EmptyText)>>,
     <<Param("text", Special)>>,
     <<Param("content", Hello)>>,
     <<Param("Text", Hello)>>,
     <<Param("data", Hello), Param("text", Other)>>,
     <<Param("text", Hello), Param("text", LongText)>>}

\* A Range header of one range-spec: unit=first-last, None for a bound
\* that is not given; unit "" when the request has no Range header.
NoRange == [unit |-> "", first |-> None, last |-> None]

Range(unit, first, last) == [unit |-> unit, first |-> first, last |-> last]

\* the headers a handler reads: Range, If-Match, If-None-Match ("" absent)
NoHeaders == [range |-> NoRange, ifMatch |-> "", ifNoneMatch |-> ""]

HeaderSets ==
    {NoHeaders,
     [NoHeaders EXCEPT !.range = Range("bytes", 0, 0)],
     [NoHeaders EXCEPT !.range = Range("bytes", None, 3)],
     [NoHeaders EXCEPT !.range = Range("bytes", 100, None)],
     [NoHeaders EXCEPT !.range = Range("items", 0, 0)],
     [NoHeaders EXCEPT !.ifMatch = "*"],
     [NoHeaders EXCEPT !.ifMatch = "\"v1\""],
     [NoHeaders EXCEPT !.ifNoneMatch = "*"],
     [NoHeaders EXCEPT !.ifNoneMatch = "\"v1\""]}

\* bodies of requests, as the key=value pairs of a form: none, and a text
Forms == {NoQuery, <<Param("text", Other)>>}

NoRequest == [method |-> "", path |-> RootPath, query |-> NoQuery,
              header |-> NoHeaders, form |-> NoQuery]

AllRequests ==
    [method : Methods, path : Paths, query : Queries, header : HeaderSets,
     form : Forms]

\* The requests of the model.  To the generate route: a POST with every
\* query, a POST of an encodable text with every header set, every other
\* method with and without a text, a POST with a text in its body, with
\* and without one in the query.  To the other routes and to the paths
\* that are none: each method, and a GET or POST carrying a text.
Requests ==
    {r \in AllRequests :
        \/ /\ r.path = GeneratePath /\ r.form = NoQuery
           /\ \/ r.method = "POST" /\ r.header = NoHeaders
              \/ r.method = "POST" /\ r.query = TextHello
              \/ r.query \in {NoQuery, TextHello} /\ r.header = NoHeaders
        \/ /\ r.path = GeneratePath /\ r.form # NoQuery
           /\ r.method = "POST" /\ r.header = NoHeaders
           /\ r.query \in {NoQuery, TextHello}
        \/ /\ r.path \in {HealthPath, RootPath}
           /\ r.header = NoHeaders /\ r.form = NoQuery
           /\ \/ r.query = NoQuery
              \/ r.query = TextHello /\ r.method = "GET"
        \/ /\ r.path \in UnknownPaths \cup UncleanPaths
           /\ r.header = NoHeaders /\ r.form = NoQuery
           /\ \/ r.query = NoQuery /\ r.method \in {"GET", "POST"}
              \/ r.query = NoQuery /\ r.path = <<"health", "">>
              \/ r.query = TextHello /\ r.method = "POST"
                   /\ r.path = <<"api", "v2", "qr", "generate">>}

(***************************************************************************)
(* Responses.  A response writer holds the status (0 until written), the   *)
(* headers (ctype Content-Type, clen Content-Length, xcto                  *)
(* X-Content-Type-Options, location, acceptRanges, crange Content-Range as *)
(* <<first, last, size>>) and what was written: body for text, bytes for   *)
(* an image.  An absent header is "", None or << >>.                       *)
(***************************************************************************)
NewWriter ==
    [status |-> 0, ctype |-> "", clen |-> None, xcto |-> "",
     location |-> << >>, acceptRanges |-> "", crange |-> << >>,
     body |-> "", bytes |-> Nil]

TextPlain == "text/plain; charset=utf-8"

\* w.WriteHeader(code)
WriteHeader(w, code) == [w EXCEPT !.status = code]

\* fmt.Fprintf(w, text): the first write sends status 200 if none was
\* set, and a text written with no Content-Type set is sniffed as plain text
WriteText(w, text) ==
    [w EXCEPT !.status = IF w.status = 0 THEN StatusOK ELSE w.status,
              !.ctype = IF w.ctype = "" THEN TextPlain ELSE w.ctype,
              !.body = w.body \o text]

\* io.CopyN(w, content, n) of the bytes from offset start
WriteBytes(w, content, start, n) ==
    [w EXCEPT !.status = IF w.status = 0 THEN StatusOK ELSE w.status,
              !.bytes = w.bytes \o SubSeq(content, start + 1, start + n)]

\* http.Error(w, msg, code)
Error(w, msg, code) ==
    WriteText(WriteHeader([w EXCEPT !.clen = None,
                                    !.ctype = TextPlain,
                                    !.xcto = "nosniff"], code),
              msg \o "\n")

\* http.NotFound(w, r)
NotFound(w) == Error(w, "404 page not found", StatusNotFound)

(***************************************************************************)
(* http.ServeContent(w, r, name, time.Time{}, content) (main.go:66), for a *)
(* writer with no ETag and a zero modification time.                       *)
(***************************************************************************)
CondNone == "none"
CondTrue == "true"
CondFalse == "false"

\* no ETag is set on the writer, so only "*" matches
CheckIfMatch(r) ==
    IF r.header.ifMatch = "" THEN CondNone
    ELSE IF r.header.ifMatch = "*" THEN CondTrue
    ELSE CondFalse

CheckIfNoneMatch(r) ==
    IF r.header.ifNoneMatch = "" THEN CondNone
    ELSE IF r.header.ifNoneMatch = "*" THEN CondFalse
    ELSE CondTrue

\* parseRange of a header of one range-spec, for content of size bytes:
\* err "" and at most one range [start, length], or err set
ParseRange(h, size) ==
    IF h.unit = "" THEN [err |-> "", ranges |-> << >>]
    ELSE IF h.unit # "bytes" THEN [err |-> "invalid range", ranges |-> << >>]
    ELSE IF h.first = None
    THEN IF h.last = None
         THEN [err |-> "invalid range", ranges |-> << >>]
         ELSE LET i == IF h.last > size THEN size ELSE h.last
              IN [err |-> "",
                  ranges |-> <<[start |-> size - i, length |-> i]>>]
    ELSE IF h.first >= size
    THEN [err |-> "invalid range: failed to overlap", ranges |-> << >>]
    ELSE IF h.last = None
    THEN [err |-> "",
          ranges |-> <<[start |-> h.first, length |-> size - h.first]>>]
    ELSE IF h.first > h.last
    THEN [err |-> "invalid range", ranges |-> << >>]
    ELSE LET e == IF h.last >= size THEN size - 1 ELSE h.last
         IN [err |-> "",
             ranges |-> <<[start |-> h.first, length |-> e - h.first + 1]>>]

ServeContent(w, r, content) ==
    LET size == Len(content)
        pr == ParseRange(r.header.range, size)
    IN  IF CheckIfMatch(r) = CondFalse
        THEN WriteHeader(w, StatusPreconditionFailed)
        ELSE IF CheckIfNoneMatch(r) = CondFalse
        THEN IF r.method \in {"GET", "HEAD"}
             THEN WriteHeader([w EXCEPT !.ctype = "", !.clen = None],
                              StatusNotModified)
             ELSE WriteHeader(w, StatusPreconditionFailed)
        ELSE IF pr.err = "invalid range: failed to overlap" /\ size > 0
        THEN Error([w EXCEPT !.crange = <<None, None, size>>], pr.err,
                   StatusRequestedRangeNotSatisfiable)
        ELSE IF pr.err = "invalid range"
        THEN Error(w, pr.err, StatusRequestedRangeNotSatisfiable)
        ELSE IF Len(pr.ranges) = 1 /\ pr.err = ""
        THEN LET ra == pr.ranges[1]
                 h == [w EXCEPT
                         !.crange = <<ra.start, ra.start + ra.length - 1, size>>,
                         !.acceptRanges = "bytes",
                         !.clen = ra.length]
                 sent == WriteHeader(h, StatusPartialContent)
             IN IF r.method = "HEAD" THEN sent
                ELSE WriteBytes(sent, content, ra.start, ra.length)
        ELSE LET h == [w EXCEPT !.acceptRanges = "bytes", !.clen = size]
                 sent == WriteHeader(h, StatusOK)
             IN IF r.method = "HEAD" THEN sent
                ELSE WriteBytes(sent, content, 0, size)

(***************************************************************************)
(* The handlers registered in main (main.go:36-76).                        *)
(***************************************************************************)
\* r.URL.Query().Get(key): the first value of the key, "" when absent
RECURSIVE QueryGet(_, _)
QueryGet(query, key) ==
    IF query = << >> THEN EmptyText
    ELSE IF Head(query).key = key THEN Head(query).value
    ELSE QueryGet(Tail(query), key)

HealthBody == "{\"status\":\"healthy\"}"

\* the health handler without its Content-Type header
HealthHandler_NoContentType(w, r) == WriteText(w, HealthBody)

\* the health handler accepting GET alone
HealthHandler_GetOnly(w, r) ==
    IF r.method # "GET"
    THEN Error(w, "Method not allowed", StatusMethodNotAllowed)
    ELSE WriteText([w EXCEPT !.ctype = "application/json"], HealthBody)

\* main.go:36-39
HealthHandler(w, r) ==
    WriteText([w EXCEPT !.ctype = "application/json"], HealthBody)

\* another identification string
RootBody_Renamed == "QR Generator" \o " API"

RootBody == "QR Code Generator" \o " API"

\* the root handler without its check of the path
RootHandler_NoPathCheck(w, r) == WriteText(w, RootBody)

\* main.go:70-76
RootHandler(w, r) ==
    IF r.path # RootPath THEN NotFound(w) ELSE WriteText(w, RootBody)

\* main.go:48: the text of a generate request
\* r.FormValue("text"): the body of a POST comes before the URL query
RequestText_FormValue(r) == QueryGet(r.form \o r.query, "text")

\* r.URL.Query().Get("text")
RequestText(r) == QueryGet(r.query, "text")

\* the generate handler accepting GET as well
MethodAccepted_GetToo(r) == r.method \in {"POST", "GET"}

\* main.go:43: the method the generate handler accepts
MethodAccepted(r) == r.method = "POST"

\* the generate handler without its check of the text
TextMissing_Never(text) == FALSE

\* main.go:49: the text the generate handler rejects
TextMissing(text) == text = EmptyText

\* main.go:43-52: the checks of the generate handler before it logs; the
\* response that ends the request, or a writer with no status to go on
\* the checks with the one of the text made first
GenerateChecks_TextFirst(w, r) ==
    IF TextMissing(RequestText(r))
    THEN Error(w, "Missing required parameter 'text'. Usage: POST /api/v1/qr/generate?text=your-text-here",
               StatusBadRequest)
    ELSE IF ~MethodAccepted(r)
    THEN Error(w, "Method not allowed", StatusMethodNotAllowed)
    ELSE w

\* the checks without the one of the text
GenerateChecks_NoTextCheck(w, r) ==
    IF ~MethodAccepted(r)
    THEN Error(w, "Method not allowed", StatusMethodNotAllowed)
    ELSE w

GenerateChecks(w, r) ==
    IF ~MethodAccepted(r)
    THEN Error(w, "Method not allowed", StatusMethodNotAllowed)
    ELSE IF TextMissing(RequestText(r))
    THEN Error(w, "Missing required parameter 'text'. Usage: POST /api/v1/qr/generate?text=your-text-here",
               StatusBadRequest)
    ELSE w

\* the error of GenerateQRCodeBytes answered as a client error
EncodeFailed_BadRequest(w, res) ==
    Error(w, "Failed to generate QR code", StatusBadRequest)

\* the error of GenerateQRCodeBytes answered with its message
EncodeFailed_LeaksCause(w, res) ==
    Error(w, res.err.msg, StatusInternalServerError)

\* main.go:57-60: the response to an error of GenerateQRCodeBytes
EncodeFailed(w, res) ==
    Error(w, "Failed to generate QR code", StatusInternalServerError)

\* main.go:57-66: the response of the generate handler once
\* GenerateQRCodeBytes has returned res
GenerateRespond(w, r, res) ==
    IF res.err # NilError
    THEN EncodeFailed(w, res)
    ELSE ServeContent([w EXCEPT !.ctype = "image/png",
                                !.clen = Len(res.bytes)],
                      r, res.bytes)

(***************************************************************************)
(* The default multiplexer, http.ListenAndServe(":8080", nil)              *)
(* (main.go:80), with the patterns "/health", "/api/v1/qr/generate" and    *)
(* "/" (main.go:36, 42, 70).                                               *)
(***************************************************************************)
RECURSIVE Clean(_, _)
Clean(segs, acc) ==
    IF segs = << >> THEN acc
    ELSE IF Head(segs) \in {"", "."} THEN Clean(Tail(segs), acc)
    ELSE IF Head(segs) = ".."
    THEN Clean(Tail(segs),
               IF acc = << >> THEN acc ELSE SubSeq(acc, 1, Len(acc) - 1))
    ELSE Clean(Tail(segs), Append(acc, Head(segs)))

\* cleanPath: no empty, "." or ".." segment; a trailing slash is kept
CleanPath(path) ==
    LET np == Clean(path, << >>)
    IN IF path # << >> /\ path[Len(path)] = "" /\ np # << >>
       THEN Append(np, "")
       ELSE np

\* the handler of the most specific pattern matching the path: the two
\* exact patterns, else the subtree pattern "/"
Route(path) ==
    IF path = HealthPath /\ HealthPath \in routes THEN "health"
    ELSE IF path = GeneratePath /\ GeneratePath \in routes THEN "generate"
    ELSE IF RootPath \in routes THEN "root"
    ELSE "notfound"

\* http.Redirect(w, r, url, 301) to the cleaned path; the body sent to a
\* GET is a link to that path, which the model keeps as its text
Redirect(w, r, path) ==
    LET h == [w EXCEPT !.location = <<path>>,
                       !.ctype = IF r.method \in {"GET", "HEAD"}
                                 THEN "text/html; charset=utf-8" ELSE ""]
        sent == WriteHeader(h, StatusMovedPermanently)
    IN IF r.method = "GET"
       THEN [sent EXCEPT !.body = "Moved Permanently"]
       ELSE sent

\* the handler the multiplexer picks for a request
Mux(r) ==
    IF CleanPath(r.path) # r.path THEN "redirect" ELSE Route(r.path)

\* what the client receives of what the handler wrote: a response to HEAD
\* carries the status and the headers and no body
Sent(r, w) ==
    IF r.method = "HEAD" THEN [w EXCEPT !.body = "", !.bytes = Nil] ELSE w

(***************************************************************************)
(* The server.  Each connection is served by its own goroutine; a request  *)
(* to the generate route that passes the checks goes on to log, to call    *)
(* GenerateQRCodeBytes and to respond, step by step.                       *)
(***************************************************************************)
Idle ==
    [pc |-> "idle", req |-> NoRequest, resp |-> NewWriter,
     text |-> EmptyText, res |-> NoResult, logged |-> << >>]

\* main.go:33: the generator is constructed; nothing is registered yet
Init ==
    /\ mainPc = "health"
    /\ routes = {}
    /\ qrGen = << >>
    /\ conn = [c \in Conns |-> Idle]
    /\ served = 0
    /\ textPosts = 0
    /\ encodeCalls = 0
    /\ logLines = 0
    /\ calls = << >>

\* main.go:36, 42, 70: http.HandleFunc registers the pattern, in the order
\* of the statements of main
HandleFunc(pattern) ==
    /\ \/ mainPc = "health" /\ pattern = HealthPath /\ mainPc' = "generate"
       \/ mainPc = "generate" /\ pattern = GeneratePath /\ mainPc' = "root"
       \/ mainPc = "root" /\ pattern = RootPath /\ mainPc' = "listen"
    /\ routes' = routes \cup {pattern}
    /\ UNCHANGED <<qrGen, conn, served, textPosts, encodeCalls, logLines,
                   calls>>

\* the server started in a goroutine before the last pattern is registered
ListenAndServe_Early ==
    /\ mainPc \in {"root", "listen"}
    /\ mainPc' = "serve"
    /\ UNCHANGED <<routes, qrGen, conn, served, textPosts, encodeCalls,
                   logLines, calls>>

\* main.go:80: http.ListenAndServe starts to accept connections
ListenAndServe ==
    /\ mainPc = "listen"
    /\ mainPc' = "serve"
    /\ UNCHANGED <<routes, qrGen, conn, served, textPosts, encodeCalls,
                   logLines, calls>>

\* main.go:80: http.ListenAndServe returns an error (the port cannot be
\* bound) and log.Fatal ends the process
ListenFails ==
    /\ mainPc = "listen"
    /\ mainPc' = "fatal"
    /\ UNCHANGED <<routes, qrGen, conn, served, textPosts, encodeCalls,
                   logLines, calls>>

\* The process is asked to stop (SIGTERM, SIGINT) while it serves.  main
\* installs no handler and never calls Shutdown, so the process ends at
\* once and the connections of the requests in flight are closed with no
\* response written.
Terminate ==
    /\ mainPc = "serve"
    /\ mainPc' = "killed"
    /\ conn' = [c \in Conns |->
                  IF conn[c].pc \in {"log", "encode", "respond"}
                  THEN [conn[c] EXCEPT !.pc = "aborted"]
                  ELSE conn[c]]
    /\ UNCHANGED <<routes, qrGen, served, textPosts, encodeCalls, logLines,
                   calls>>

\* a connection receives a request once the one before it is answered
Receives(c, r) ==
    /\ mainPc = "serve"
    /\ conn[c].pc \in {"idle", "done"}
    /\ served < MaxRequests
    /\ r \in Requests
    /\ served' = served + 1
    /\ textPosts' = textPosts +
           (IF r.method = "POST" /\ r.path = GeneratePath
                                /\ RequestText(r) # EmptyText
            THEN 1 ELSE 0)

\* the request is answered with what the handler wrote
Answer(c, r, w) ==
    conn' = [conn EXCEPT ![c] = [Idle EXCEPT !.pc = "done", !.req = r,
                                             !.resp = Sent(r, w)]]

\* a path that is not clean: the multiplexer redirects to the clean one
ServeRedirect(c, r) ==
    /\ Receives(c, r)
    /\ Mux(r) = "redirect"
    /\ Answer(c, r, Redirect(NewWriter, r, CleanPath(r.path)))
    /\ UNCHANGED <<server, encodeCalls, logLines, calls>>

ServeHealth(c, r) ==
    /\ Receives(c, r)
    /\ Mux(r) = "health"
    /\ Answer(c, r, HealthHandler(NewWriter, r))
    /\ UNCHANGED <<server, encodeCalls, logLines, calls>>

\* the handler of "/"; with no pattern matching, the multiplexer's own
\* NotFoundHandler answers
ServeRoot(c, r) ==
    /\ Receives(c, r)
    /\ Mux(r) \in {"root", "notfound"}
    /\ Answer(c, r, IF Mux(r) = "root" THEN RootHandler(NewWriter, r)
                                       ELSE NotFound(NewWriter))
    /\ UNCHANGED <<server, encodeCalls, logLines, calls>>

\* main.go:43-52: the generate handler checks the method and the text
ServeGenerate(c, r) ==
    /\ Receives(c, r)
    /\ Mux(r) = "generate"
    /\ LET w == GenerateChecks(NewWriter, r)
       IN IF w.status # 0
          THEN Answer(c, r, w)
          ELSE conn' = [conn EXCEPT ![c] =
                           [Idle EXCEPT !.pc = "log", !.req = r,
                                        !.text = RequestText(r)]]
    /\ UNCHANGED <<server, encodeCalls, logLines, calls>>

\* the handler without its log.Printf
GenerateLog_Silent(c) ==
    /\ conn[c].pc = "log"
    /\ conn' = [conn EXCEPT ![c].pc = "encode"]
    /\ UNCHANGED <<server, served, textPosts, encodeCalls, logLines, calls>>

\* main.go:54: log.Printf of the text
GenerateLog(c) ==
    /\ conn[c].pc = "log"
    /\ conn' = [conn EXCEPT ![c].pc = "encode",
                            ![c].logged = Append(@, conn[c].text)]
    /\ logLines' = logLines + 1
    /\ UNCHANGED <<server, served, textPosts, encodeCalls, calls>>

\* the call of GenerateQRCodeBytes, were the text a variable shared by the
\* handler's goroutines: it holds the text of whichever request wrote last
GenerateEncode_SharedText(c) ==
    /\ conn[c].pc = "encode"
    /\ \E d \in Conns :
          /\ conn[d].pc # "idle"
          /\ \E res \in GenerateQRCodeBytes(RequestText(conn[d].req)) :
                /\ conn' = [conn EXCEPT ![c].pc = "respond", ![c].res = res]
                /\ encodeCalls' = encodeCalls + Len(res.invoked)
    /\ UNCHANGED <<server, served, textPosts, logLines, calls>>

\* the call of GenerateQRCodeBytes, were the generator to keep the results
\* by text and to answer a repeated text from what it kept
GenerateEncode_Cached(c) ==
    /\ conn[c].pc = "encode"
    /\ IF \E k \in DOMAIN qrGen : qrGen[k].text = conn[c].text
       THEN LET k == CHOOSE k \in DOMAIN qrGen :
                         qrGen[k].text = conn[c].text
            IN /\ conn' = [conn EXCEPT
                             ![c].pc = "respond",
                             ![c].res = [qrGen[k].res EXCEPT
                                            !.invoked = << >>]]
               /\ UNCHANGED <<qrGen, encodeCalls>>
       ELSE \E res \in GenerateQRCodeBytes(conn[c].text) :
               /\ conn' = [conn EXCEPT ![c].pc = "respond", ![c].res = res]
               /\ encodeCalls' = encodeCalls + Len(res.invoked)
               /\ qrGen' = Append(qrGen, [text |-> conn[c].text,
                                          res |-> res])
    /\ UNCHANGED <<mainPc, routes, served, textPosts, logLines, calls>>

\* the call of GenerateQRCodeBytes, were it made again after an error
GenerateEncode_Retry(c) ==
    /\ conn[c].pc = "encode"
    /\ \E first, second \in GenerateQRCodeBytes(conn[c].text) :
          LET res == IF first.err = NilError
                     THEN first
                     ELSE [second EXCEPT
                              !.invoked = first.invoked \o second.invoked]
          IN /\ conn' = [conn EXCEPT ![c].pc = "respond", ![c].res = res]
             /\ encodeCalls' = encodeCalls + Len(res.invoked)
    /\ UNCHANGED <<server, served, textPosts, logLines, calls>>

\* the call of GenerateQRCodeBytes, were it made under a lock that the
\* handler holds until it has responded
GenerateEncode_Locked(c) ==
    /\ conn[c].pc = "encode"
    /\ \A d \in Conns \ {c} : conn[d].pc # "respond"
    /\ \E res \in GenerateQRCodeBytes(conn[c].text) :
          /\ conn' = [conn EXCEPT ![c].pc = "respond", ![c].res = res]
          /\ encodeCalls' = encodeCalls + Len(res.invoked)
    /\ UNCHANGED <<server, served, textPosts, logLines, calls>>

\* main.go:56: the call of GenerateQRCodeBytes
GenerateEncode(c) ==
    /\ conn[c].pc = "encode"
    /\ \E res \in GenerateQRCodeBytes(conn[c].text) :
          /\ conn' = [conn EXCEPT ![c].pc = "respond", ![c].res = res]
          /\ encodeCalls' = encodeCalls + Len(res.invoked)
    /\ UNCHANGED <<server, served, textPosts, logLines, calls>>

\* the response, were the handler to end the process with log.Fatal when
\* the encoding failed
GenerateEnd_Fatal(c) ==
    /\ conn[c].pc = "respond"
    /\ IF conn[c].res.err # NilError
       THEN /\ mainPc' = "fatal"
            /\ conn' = [conn EXCEPT ![c].pc = "aborted"]
       ELSE /\ mainPc' = mainPc
            /\ conn' = [conn EXCEPT
                          ![c].pc = "done",
                          ![c].resp = Sent(conn[c].req,
                                           GenerateRespond(NewWriter,
                                                           conn[c].req,
                                                           conn[c].res))]
    /\ UNCHANGED <<routes, qrGen, served, textPosts, encodeCalls, logLines,
                   calls>>

\* main.go:57-66: the error response, or the image
GenerateEnd(c) ==
    /\ conn[c].pc = "respond"
    /\ conn' = [conn EXCEPT
                  ![c].pc = "done",
                  ![c].resp = Sent(conn[c].req,
                                   GenerateRespond(NewWriter, conn[c].req,
                                                   conn[c].res))]
    /\ UNCHANGED <<server, served, textPosts, encodeCalls, logLines, calls>>

Next ==
    \/ \E pattern \in {HealthPath, GeneratePath, RootPath} :
          HandleFunc(pattern)
    \/ ListenAndServe
    \/ ListenFails
    \/ \E c \in Conns :
        \/ \E r \in Requests : ServeRedirect(c, r)
        \/ \E r \in Requests : ServeHealth(c, r)
        \/ \E r \in Requests : ServeRoot(c, r)
        \/ \E r \in Requests : ServeGenerate(c, r)
        \/ GenerateLog(c)
        \/ GenerateEncode(c)
        \/ GenerateEnd(c)

Spec == Init /\ [][Next]_vars

\* the server in an environment that may ask it to stop
NextStop == Next \/ Terminate

SpecStop == Init /\ [][NextStop]_vars

\* the next statement of the handler serving connection c
Step(c) == GenerateLog(c) \/ GenerateEncode(c) \/ GenerateEnd(c)

\* every goroutine that can run is scheduled, and the encoder returns
FairSpec == Spec /\ \A c \in Conns : WF_vars(Step(c))

(***************************************************************************)
(* The unit test (main_test.go:32-35): direct calls of                     *)
(* GenerateQRCodeBytes, one after the other.                               *)
(***************************************************************************)
\* a direct call, were the generator to write every image to one buffer
\* that it never resets
Call_SharedBuffer(text) ==
    /\ Len(calls) < MaxCalls
    /\ \E res \in GenerateQRCodeBytes(text) :
          LET kept == IF calls = << >> THEN Nil
                      ELSE calls[Len(calls)].res.bytes
              got == IF res.err = NilError
                     THEN [res EXCEPT !.bytes = kept \o res.bytes]
                     ELSE res
          IN /\ calls' = Append(calls, [text |-> text, res |-> got])
             /\ encodeCalls' = encodeCalls + Len(res.invoked)
    /\ UNCHANGED <<server, conn, served, textPosts, logLines>>

Call(text) ==
    /\ Len(calls) < MaxCalls
    /\ \E res \in GenerateQRCodeBytes(text) :
          /\ calls' = Append(calls, [text |-> text, res |-> res])
          /\ encodeCalls' = encodeCalls + Len(res.invoked)
    /\ UNCHANGED <<server, conn, served, textPosts, logLines>>

NextCalls == \E text \in Texts : Call(text)

SpecCalls == Init /\ [][NextCalls]_vars

(***************************************************************************)
(* Properties.                                                             *)
(***************************************************************************)
Done(c) == conn[c].pc = "done"

Registered == {HealthPath, GeneratePath, RootPath}

\* the query gives no non-empty value under the key text
NoTextGiven(query) ==
    \A i \in DOMAIN query :
        query[i].key = "text" => query[i].value = EmptyText

\* a POST to the generate route
GeneratePost(r) == r.path = GeneratePath /\ r.method = "POST"

\* the encoder was invoked for the request of c and returned bytes
Encoded(c) == conn[c].res.invoked # << >> /\ conn[c].res.err = NilError

\* the encoder was invoked for the request of c and returned an error
EncoderFailed(c) == conn[c].res.invoked # << >> /\ conn[c].res.err # NilError

\* C1: a POST to the generate route whose text the encoder accepted is
\* answered 200, Content-Type image/png, Content-Length the number of bytes
\* the encoder returned, and a body of exactly those bytes.
C1_SuccessIsWholeImage ==
    \A c \in Conns :
        (Done(c) /\ GeneratePost(conn[c].req) /\ Encoded(c)) =>
            /\ conn[c].resp.status = 200
            /\ conn[c].resp.ctype = "image/png"
            /\ conn[c].resp.clen = Len(conn[c].res.bytes)
            /\ conn[c].resp.bytes = conn[c].res.bytes

\* C2: a POST to the generate route with no text, an empty text, or a value
\* only under another name is answered 400 with a plain-text body that
\* explains, and no image is produced: the encoder is not invoked and no
\* image bytes or image type are sent.
C2_MissingTextIs400 ==
    \A c \in Conns :
        (conn[c].pc # "idle" /\ GeneratePost(conn[c].req)
           /\ NoTextGiven(conn[c].req.query)) =>
            /\ Done(c)
            /\ conn[c].resp.status = 400
            /\ conn[c].resp.ctype = "text/plain; charset=utf-8"
            /\ conn[c].resp.body # ""
            /\ conn[c].resp.bytes = << >>
            /\ conn[c].res.invoked = << >>

C2_Witness ==
    \E c \in Conns :
        /\ Done(c) /\ GeneratePost(conn[c].req)
        /\ conn[c].req.query = <<Param("content", Hello)>>
        /\ conn[c].resp.status = 400

\* C3: a request to the generate route with a method other than POST is
\* answered 405 whatever its query, and goes no further in the handler.
C3_NonPostIs405 ==
    \A c \in Conns :
        (conn[c].pc # "idle" /\ conn[c].req.path = GeneratePath
           /\ conn[c].req.method # "POST") =>
            Done(c) /\ conn[c].resp.status = 405

C3_Witness ==
    \E c, d \in Conns :
        /\ Done(c) /\ conn[c].req.path = GeneratePath
        /\ conn[c].req.method = "HEAD" /\ conn[c].req.query = TextHello
        /\ conn[c].resp.status = 405
        /\ Done(d) /\ conn[d].req.path = GeneratePath
        /\ conn[d].req.method = "DELETE" /\ conn[d].req.query = NoQuery
        /\ conn[d].resp.status = 405

\* C4: when the encoder reports an error for a POST to the generate route
\* with a non-empty text, the response is 500 with a plain-text body and
\* no image bytes.
C4_EncoderErrorIs500 ==
    \A c \in Conns :
        (Done(c) /\ GeneratePost(conn[c].req) /\ EncoderFailed(c)) =>
            /\ conn[c].resp.status = 500
            /\ conn[c].resp.ctype = "text/plain; charset=utf-8"
            /\ conn[c].resp.body # ""
            /\ conn[c].resp.bytes = << >>
            /\ conn[c].resp.clen = None

C4_Witness ==
    \E c \in Conns :
        /\ Done(c) /\ GeneratePost(conn[c].req) /\ EncoderFailed(c)
        /\ conn[c].text = LongText
        /\ conn[c].resp.status = 500

\* C5: the 500 response does not depend on the cause: any two requests
\* whose encoding failed, whatever the causes and the texts, were sent the
\* same status, headers and body.
C5_FailureHidesCause ==
    \A c, d \in Conns :
        (/\ Done(c) /\ GeneratePost(conn[c].req) /\ EncoderFailed(c)
         /\ Done(d) /\ GeneratePost(conn[d].req) /\ EncoderFailed(d)) =>
            conn[c].resp = conn[d].resp

C5_Witness ==
    \E c, d \in Conns :
        /\ Done(c) /\ GeneratePost(conn[c].req) /\ EncoderFailed(c)
        /\ Done(d) /\ GeneratePost(conn[d].req) /\ EncoderFailed(d)
        /\ conn[c].res.err.wraps = "content too long to encode"
        /\ conn[d].res.err.wraps = "png: write failed"
        /\ conn[c].text # conn[d].text
        /\ conn[c].resp.status = 500

\* a path with no empty, "." or ".." segment but a trailing empty one
IsClean(path) ==
    \A i \in DOMAIN path :
        /\ path[i] \notin {".", ".."}
        /\ path[i] = "" => (i = Len(path) /\ i > 1)

C7_HealthIsFixedPayload ==
    \A c \in Conns :
        (Done(c) /\ conn[c].req.path = HealthPath) =>
            /\ conn[c].resp.status = 200
            /\ conn[c].resp.ctype = "application/json"
            /\ conn[c].resp.body = "{\"status\":\"healthy\"}"

\* C7, amended: every request to /health is answered 200 with Content-Type
\* application/json, whatever its method and query and whatever the other
\* requests before it or beside it; the body is {"status":"healthy"},
\* except that the response to a HEAD carries no body.
C7_HealthIsFixedButForHead ==
    \A c \in Conns :
        (conn[c].pc # "idle" /\ conn[c].req.path = HealthPath) =>
            /\ Done(c)
            /\ conn[c].resp.status = 200
            /\ conn[c].resp.ctype = "application/json"
            /\ conn[c].resp.body =
                  IF conn[c].req.method = "HEAD" THEN ""
                  ELSE "{\"status\":\"healthy\"}"
            /\ conn[c].resp.bytes = << >>

\* a health request with a query answered beside a failing generate
\* request, after an earlier request
C7_Witness ==
    \E c, d \in Conns :
        /\ c # d
        /\ Done(c) /\ conn[c].req.path = HealthPath
        /\ conn[c].req.query = TextHello
        /\ conn[c].resp.body = "{\"status\":\"healthy\"}"
        /\ conn[d].pc = "respond" /\ EncoderFailed(d)

\* C8: GET / is answered 200 with a fixed plain-text string that contains
\* "QR Code Generator", the same for every such request.
C8_RootIsIdentification ==
    \A c \in Conns :
        (Done(c) /\ conn[c].req.path = RootPath
           /\ conn[c].req.method = "GET") =>
            /\ conn[c].resp.status = 200
            /\ conn[c].resp.ctype = "text/plain; charset=utf-8"
            /\ conn[c].resp.body = "QR Code Generator API"
            /\ \E pre, suf \in {"", " API"} :
                  conn[c].resp.body = pre \o "QR Code Generator" \o suf

C8_Witness ==
    \E c, d \in Conns :
        /\ c # d
        /\ Done(c) /\ conn[c].req.path = RootPath
        /\ conn[c].req.method = "GET" /\ conn[c].req.query = TextHello
        /\ Done(d) /\ conn[d].req.path = RootPath
        /\ conn[d].req.method = "GET" /\ conn[d].req.query = NoQuery
        /\ conn[c].resp.status = 200

\* C9 as stated: a registered route that receives another method than its
\* own answers 405: a non-GET to /health, a non-GET to /, a non-POST to the
\* generate route.
C9_WrongMethodIs405 ==
    \A c \in Conns :
        (/\ Done(c)
         /\ \/ conn[c].req.path \in {HealthPath, RootPath}
               /\ conn[c].req.method # "GET"
            \/ conn[c].req.path = GeneratePath
               /\ conn[c].req.method # "POST") =>
            conn[c].resp.status = 405

\* C9, amended: only the generate route checks the method: a non-POST
\* request to it is answered 405, while /health and / are answered 200
\* whatever the method; no request to a registered route is answered 404.
C9_OnlyGenerateChecksMethod ==
    \A c \in Conns :
        (Done(c) /\ conn[c].req.path \in Registered) =>
            /\ conn[c].resp.status # 404
            /\ conn[c].resp.status = 405 <=>
                  (conn[c].req.path = GeneratePath
                     /\ conn[c].req.method # "POST")
            /\ conn[c].req.path \in {HealthPath, RootPath} =>
                  conn[c].resp.status = 200

C9_Witness ==
    \E c, d \in Conns :
        /\ Done(c) /\ conn[c].req.path = HealthPath
        /\ conn[c].req.method = "POST" /\ conn[c].resp.status = 200
        /\ Done(d) /\ conn[d].req.path = RootPath
        /\ conn[d].req.method = "DELETE" /\ conn[d].resp.status = 200

\* C10: GenerateQRCodeBytes called with the empty string returns an error
\* and no bytes, and does not invoke the encoder.
C10_EmptyTextIsError ==
    /\ \A i \in DOMAIN calls :
          calls[i].text = << >> =>
              /\ calls[i].res.err.msg # ""
              /\ calls[i].res.bytes = << >>
              /\ calls[i].res.invoked = << >>
    /\ encodeCalls =
          Cardinality({i \in DOMAIN calls : calls[i].text # << >>})

\* the empty string, called after a text that was encoded
C10_Witness ==
    \E i \in DOMAIN calls :
        /\ i > 1 /\ calls[i].text = << >>
        /\ calls[i].res.err.msg = "text cannot be empty"
        /\ calls[i - 1].res.invoked # << >>

\* the encoder was invoked by the i-th direct call and returned bytes
CallAccepted(i) ==
    /\ calls[i].res.invoked # << >>
    /\ calls[i].res.invoked[1].out.err = ""

\* the encoder was invoked by the i-th direct call and returned an error
CallRejected(i) ==
    /\ calls[i].res.invoked # << >>
    /\ calls[i].res.invoked[1].out.err # ""

\* C11: for every non-empty text the encoder accepts, GenerateQRCodeBytes
\* returns no error and a non-empty byte sequence that begins with the PNG
\* signature 89 50 4E 47 0D 0A 1A 0A and is exactly what the encoder
\* produced.
C11_AcceptedTextIsPNG ==
    \A i \in DOMAIN calls :
        (calls[i].text # << >> /\ CallAccepted(i)) =>
            /\ calls[i].res.err = [msg |-> "", wraps |-> ""]
            /\ calls[i].res.bytes = calls[i].res.invoked[1].out.bytes
            /\ Len(calls[i].res.bytes) >= 8
            /\ SubSeq(calls[i].res.bytes, 1, 8) =
                  <<137, 80, 78, 71, 13, 10, 26, 10>>

C11_Witness ==
    \E i \in DOMAIN calls :
        /\ calls[i].text = Hello /\ CallAccepted(i)
        /\ Len(calls[i].res.bytes) > 8

\* C12: when the encoder reports an error, GenerateQRCodeBytes returns nil
\* bytes and an error that wraps the encoder's error, so that the cause can
\* be retrieved from it; in every outcome exactly one of bytes and error is
\* set.
C12_ErrorWrapsCause ==
    \A i \in DOMAIN calls :
        /\ CallRejected(i) =>
              /\ calls[i].res.bytes = << >>
              /\ calls[i].res.err.msg # ""
              /\ calls[i].res.err.wraps = calls[i].res.invoked[1].out.err
        /\ (calls[i].res.bytes # << >>) # (calls[i].res.err.msg # "")

C12_Witness ==
    \E i, j \in DOMAIN calls :
        /\ CallRejected(i) /\ calls[i].text = LongText
        /\ calls[i].res.err.wraps = "content too long to encode"
        /\ CallRejected(j) /\ calls[j].text = Hello
        /\ calls[j].res.err.wraps = "png: write failed"

\* C13: every invocation of the encoder asks for the medium
\* error-correction level and an image of 256 by 256 pixels, whatever the
\* query, the headers and the earlier requests.
C13_EncoderParametersFixed ==
    \A c \in Conns :
        \A k \in DOMAIN conn[c].res.invoked :
            /\ conn[c].res.invoked[k].level = "Medium"
            /\ conn[c].res.invoked[k].size = 256

C13_Witness ==
    \E c, d \in Conns :
        /\ c # d /\ Done(d) /\ conn[d].res.invoked # << >>
        /\ conn[c].res.invoked # << >>
        /\ conn[c].req.header # NoHeaders
        /\ conn[c].req.query # conn[d].req.query

\* C14: every response of the generate route is a whole success (200,
\* Content-Type image/png, the entire image) or a whole failure (a status
\* outside 2xx, no image bytes, no image/png Content-Type).
C14_NoPartialOutcome ==
    \A c \in Conns :
        (Done(c) /\ conn[c].req.path = GeneratePath) =>
            \/ /\ conn[c].resp.status = 200
               /\ conn[c].resp.ctype = "image/png"
               /\ Encoded(c)
               /\ conn[c].resp.bytes = conn[c].res.bytes
            \/ /\ conn[c].resp.status \notin 200..299
               /\ conn[c].resp.bytes = << >>
               /\ conn[c].resp.ctype # "image/png"

\* the request of c was answered with a failure status
Failed(c) == Done(c) /\ conn[c].resp.status \in {400, 404, 405, 500}

\* the request passes the checks of the generate handler
PassesChecks(r) ==
    Mux(r) = "generate" /\ GenerateChecks(NewWriter, r).status = 0

\* the response to request r served on its own, the encoder (if the request
\* gets that far) returning res
ResponseAlone(r, res) ==
    Sent(r, CASE Mux(r) = "redirect" ->
                     Redirect(NewWriter, r, CleanPath(r.path))
              [] Mux(r) = "health" -> HealthHandler(NewWriter, r)
              [] Mux(r) = "root" -> RootHandler(NewWriter, r)
              [] Mux(r) = "generate" ->
                     IF PassesChecks(r)
                     THEN GenerateRespond(NewWriter, r, res)
                     ELSE GenerateChecks(NewWriter, r))

\* what connection c holds of its request depends on that request and on
\* the outcome of its own call of the encoder alone
Isolated(c) ==
    /\ conn[c].pc \in {"log", "encode", "respond"} =>
          /\ PassesChecks(conn[c].req)
          /\ conn[c].text = RequestText(conn[c].req)
    /\ (conn[c].pc = "respond" \/ (Done(c) /\ PassesChecks(conn[c].req))) =>
          conn[c].res \in GenerateQRCodeBytes(RequestText(conn[c].req))
    /\ Done(c) => conn[c].resp = ResponseAlone(conn[c].req, conn[c].res)

\* C15: a request that fails (400, 404, 405 or 500) does not affect a
\* request served concurrently: under every interleaving, the other request
\* gets the response it would get when served alone.
C15_FailureDoesNotSpread ==
    \A c \in Conns :
        /\ Isolated(c)
        /\ \A d \in Conns \ {c} :
              (Failed(d) /\ Done(c) /\ PassesChecks(conn[c].req)
                         /\ conn[c].res.err = [msg |-> "", wraps |-> ""]) =>
                  conn[c].resp.status \in {200, 206, 412, 416}

\* the requests of c and d are in flight together, the one of d about to
\* fail and the one of c about to be answered with the image
C15_Witness ==
    \E c, d \in Conns :
        /\ c # d
        /\ conn[d].pc = "respond" /\ EncoderFailed(d)
        /\ conn[c].pc = "respond" /\ Encoded(c)
        /\ conn[d].req.query = conn[c].req.query

\* a valid generate request: a POST with a text that the encoder accepted
ValidServed(c) ==
    /\ Done(c) /\ GeneratePost(conn[c].req)
    /\ RequestText(conn[c].req) # << >>
    /\ Encoded(c)

\* C16: valid generate requests (POST, distinct non-empty texts that the
\* encoder accepts) served concurrently are all answered 200, under every
\* interleaving.
C16_ConcurrentValidAll200 ==
    \A c, d \in Conns :
        (c # d /\ ValidServed(c) /\ ValidServed(d)
               /\ RequestText(conn[c].req) # RequestText(conn[d].req)) =>
            conn[c].resp.status = 200 /\ conn[d].resp.status = 200

\* C17: the service is stateless: handling a request leaves what the server
\* keeps between requests unchanged (the generator has no fields, the route
\* table is not modified), so a given request gets the same response after
\* any sequence of earlier requests.
C17_Stateless ==
    /\ [][mainPc = "serve" =>
             /\ mainPc' = mainPc
             /\ routes' = routes
             /\ qrGen' = qrGen]_vars
    /\ [](\A c, d \in Conns :
             (Done(c) /\ Done(d) /\ conn[c].req = conn[d].req
                      /\ conn[c].res.invoked = conn[d].res.invoked) =>
                 conn[c].resp = conn[d].resp)

\* the same request was served twice, with nothing kept of the first
C17_Witness ==
    \E c, d \in Conns :
        /\ c # d /\ served = 2 /\ Done(c) /\ Done(d)
        /\ conn[c].req = conn[d].req
        /\ Encoded(c) /\ Encoded(d)
        /\ conn[c].resp = conn[d].resp
        /\ routes = Registered /\ qrGen = << >>

\* requests past the checks of the generate handler and not yet past the
\* call of GenerateQRCodeBytes
BeforeEncode == {c \in Conns : conn[c].pc \in {"log", "encode"}}

\* C18: the encoder is invoked exactly once for each POST to the generate
\* route with a non-empty text: a repeated text is encoded again, an encoder
\* error is not retried, and the number of invocations is the number of
\* such requests.
C18_OneInvocationPerRequest ==
    /\ encodeCalls + Cardinality(BeforeEncode) = textPosts
    /\ \A c \in Conns :
          /\ c \in BeforeEncode => conn[c].res.invoked = << >>
          /\ (conn[c].pc = "respond" \/
                (Done(c) /\ GeneratePost(conn[c].req)
                         /\ RequestText(conn[c].req) # << >>)) =>
                /\ Len(conn[c].res.invoked) = 1
                /\ conn[c].res.invoked[1].text = RequestText(conn[c].req)

\* the same text was posted twice and encoded twice, the first time with
\* an error of the encoder
C18_Witness ==
    \E c, d \in Conns :
        /\ c # d /\ Done(c) /\ Done(d)
        /\ conn[c].req = conn[d].req
        /\ EncoderFailed(c) /\ Encoded(d)
        /\ encodeCalls = 2 /\ textPosts = 2

\* the request of c is between the checks and the response
InFlight(c) == conn[c].pc \in {"log", "encode", "respond"}

\* C19: handling a request never waits on another request or on a shared
\* resource: a request in flight can take its next step whatever the state
\* of the other requests, and, as the encoder returns, every request is
\* eventually answered.
C19_NeverWaits ==
    /\ [](\A c \in Conns :
             /\ conn[c].pc = "log" => ENABLED GenerateLog(c)
             /\ conn[c].pc = "encode" => ENABLED GenerateEncode(c)
             /\ conn[c].pc = "respond" => ENABLED GenerateEnd(c))
    /\ \A c \in Conns : InFlight(c) ~> Done(c)

\* two requests are in flight together, one ahead of the other
C19_Witness ==
    \E c, d \in Conns :
        c # d /\ conn[c].pc = "encode" /\ conn[d].pc = "respond"

\* the first value under the key text in the query, empty if there is none
FirstText(query) ==
    LET at == {i \in DOMAIN query : query[i].key = "text"}
    IN IF at = {} THEN << >>
       ELSE query[CHOOSE i \in at : \A j \in at : i <= j].value

\* C20: the text is exactly the first value of the key text of the URL
\* query, empty when the key is absent; a value under another key (content,
\* data, Text) or in the body of the request is never used.
C20_TextIsFirstQueryValue ==
    \A c \in Conns :
        LET r == conn[c].req
        IN /\ InFlight(c) => conn[c].text = FirstText(r.query)
           /\ \A k \in DOMAIN conn[c].logged :
                 conn[c].logged[k] = FirstText(r.query)
           /\ \A k \in DOMAIN conn[c].res.invoked :
                 conn[c].res.invoked[k].text = FirstText(r.query)
           /\ (Done(c) /\ GeneratePost(r)) =>
                 IF FirstText(r.query) = << >>
                 THEN /\ conn[c].resp.status = 400
                      /\ conn[c].res.invoked = << >>
                 ELSE conn[c].res.invoked # << >>

\* a text in the body alone is answered 400; of two values of text in the
\* query the first is encoded
C20_Witness ==
    \E c, d \in Conns :
        /\ Done(c) /\ GeneratePost(conn[c].req)
        /\ conn[c].req.form # << >> /\ conn[c].req.query = << >>
        /\ conn[c].resp.status = 400
        /\ Done(d) /\ Encoded(d)
        /\ conn[d].req.query =
              <<Param("text", Hello), Param("text", LongText)>>
        /\ conn[d].res.invoked[1].text = Hello

\* C21: the service restricts neither the length nor the characters of the
\* text and does not alter it: for every non-empty text of a POST the
\* encoder is invoked with exactly that text, and such a request is rejected
\* only when the encoder reports an error.
C21_OnlyEncoderRejects ==
    \A c \in Conns :
        (Done(c) /\ GeneratePost(conn[c].req)
                 /\ FirstText(conn[c].req.query) # << >>) =>
            /\ Len(conn[c].res.invoked) = 1
            /\ conn[c].res.invoked[1].text = FirstText(conn[c].req.query)
            /\ conn[c].resp.status >= 400 =>
                  conn[c].res.invoked[1].out.err # ""

\* C22: calling GenerateQRCodeBytes twice with the same text, accepted by
\* the encoder both times, succeeds both times and each result begins with
\* the PNG signature; the outcome of the second call is one that a first
\* call can have, whatever the earlier calls were.
C22_SecondCallIndependent ==
    \A i, j \in DOMAIN calls :
        (i < j /\ calls[i].text = calls[j].text) =>
            /\ calls[j].res \in GenerateQRCodeBytes(calls[j].text)
            /\ (CallAccepted(i) /\ CallAccepted(j)) =>
                  \A k \in {i, j} :
                      /\ calls[k].res.err.msg = ""
                      /\ Len(calls[k].res.bytes) >= 8
                      /\ SubSeq(calls[k].res.bytes, 1, 8) = PNGSignature

\* the same text was given three times: accepted, then rejected by the
\* encoder, then accepted again
C22_Witness ==
    /\ Len(calls) = 3
    /\ \A k \in 1..3 : calls[k].text = Hello
    /\ CallAccepted(1) /\ CallRejected(2) /\ CallAccepted(3)
    /\ calls[1].res.bytes = calls[3].res.bytes

\* C23: the service shuts down gracefully: when the process is asked to
\* stop, every request in flight at that moment still receives its complete
\* response before the process exits.
C23_GracefulShutdown ==
    mainPc = "killed" =>
        \A c \in Conns : conn[c].pc # "aborted"

\* C24: no outcome of the handling of a request (validation failure,
\* unknown route, wrong method, encoder error) ends the process: after any
\* sequence of requests the server is still serving, and the only fatal exit
\* of the program is the listener call returning an error.
C24_RequestsNeverFatal ==
    /\ [](served > 0 => mainPc = "serve")
    /\ [][mainPc = "serve" => mainPc' = "serve"]_vars
    /\ [][(mainPc' = "fatal" /\ mainPc # "fatal") =>
             (mainPc = "listen" /\ served = 0)]_vars

\* an encoder error and a validation, route or method failure have been
\* answered and the server is serving
C24_Witness ==
    /\ mainPc = "serve"
    /\ \E c, d \in Conns :
          /\ Done(c) /\ EncoderFailed(c) /\ conn[c].resp.status = 500
          /\ Done(d) /\ conn[d].resp.status \in {400, 404, 405}

\* C25: every response of the generate route has a status in 200, 400, 405,
\* 500, whatever headers and body the request carries; a POST with a text
\* that the encoder accepted is answered 200 with the whole image, also with
\* Range or conditional headers in the request.
C25_StatusesOfGenerate ==
    \A c \in Conns :
        (Done(c) /\ conn[c].req.path = GeneratePath) =>
            /\ conn[c].resp.status \in {200, 400, 405, 500}
            /\ (conn[c].req.method = "POST" /\ Encoded(c)) =>
                  /\ conn[c].resp.status = 200
                  /\ conn[c].resp.bytes = conn[c].res.invoked[1].out.bytes

\* the steps of a handler, as pairs of positions
HandlerOrder ==
    {<<"idle", "done">>, <<"done", "done">>, <<"idle", "log">>,
     <<"done", "log">>, <<"log", "encode">>, <<"encode", "respond">>,
     <<"respond", "done">>}

\* C26: within one generate request the steps run in the order method
\* check, text check, log, encoder call, response, and the first failing
\* check ends the request: a request that is not a POST and lacks the text
\* is answered 405, not 400, and the encoder is never invoked for a request
\* answered 405 or 400.
C26_FixedOrder ==
    /\ [](\A c \in Conns :
             LET r == conn[c].req
             IN /\ (Done(c) /\ r.path = GeneratePath /\ r.method # "POST") =>
                      conn[c].resp.status = 405
                /\ (Done(c) /\ r.path = GeneratePath
                            /\ conn[c].resp.status \in {400, 405}) =>
                      conn[c].res.invoked = << >> /\ conn[c].logged = << >>
                /\ conn[c].pc = "log" =>
                      /\ r.method = "POST" /\ FirstText(r.query) # << >>
                      /\ conn[c].logged = << >>
                      /\ conn[c].res.invoked = << >>
                /\ conn[c].pc = "encode" =>
                      /\ conn[c].logged # << >>
                      /\ conn[c].res.invoked = << >>
                /\ conn[c].pc = "respond" =>
                      /\ conn[c].logged # << >>
                      /\ conn[c].res.invoked # << >>
                      /\ conn[c].resp.status = 0)
    /\ [][\A c \in Conns :
             conn'[c] # conn[c] =>
                <<conn[c].pc, conn'[c].pc>> \in HandlerOrder]_vars

\* a GET without the text was answered 405 while a POST was between the
\* encoder call and its response
C26_Witness ==
    \E c, d \in Conns :
        /\ Done(c) /\ conn[c].req.path = GeneratePath
        /\ conn[c].req.method = "GET" /\ conn[c].req.query = << >>
        /\ conn[c].resp.status = 405
        /\ conn[d].pc = "respond"

\* C27: the handler calls GenerateQRCodeBytes with a non-empty text only, so
\* the empty-text error of GenerateQRCodeBytes never occurs over HTTP: every
\* 500 of the generate route comes from an error reported by the encoder,
\* and an empty or missing text is never answered 500.
C27_EmptyTextErrorUnreachable ==
    \A c \in Conns :
        /\ conn[c].pc = "encode" => conn[c].text # << >>
        /\ conn[c].res.err.msg # "text cannot be empty"
        /\ (Done(c) /\ conn[c].req.path = GeneratePath
                    /\ conn[c].resp.status = 500) =>
              /\ conn[c].res.invoked # << >>
              /\ conn[c].res.invoked[1].out.err # ""
        /\ (Done(c) /\ conn[c].req.path = GeneratePath
                    /\ FirstText(conn[c].req.query) = << >>) =>
              conn[c].resp.status \in {400, 405}

\* a POST with an empty value of text was answered 400 and a POST whose
\* encoding failed was answered 500
C27_Witness ==
    \E c, d \in Conns :
        /\ Done(c) /\ GeneratePost(conn[c].req)
        /\ conn[c].req.query = <<Param("text", EmptyText)>>
        /\ conn[c].resp.status = 400
        /\ Done(d) /\ GeneratePost(conn[d].req) /\ EncoderFailed(d)
        /\ conn[d].resp.status = 500

\* requests past the checks of the generate handler and not yet logged
BeforeLog == {c \in Conns : conn[c].pc = "log"}

\* C28: the only side effect of handling a generate request is the log
\* line: it is written exactly once, with the text of the request, for each
\* POST with a non-empty text, before the encoder is invoked and whether or
\* not the encoding succeeds; a request answered 405 or 400 writes none.
C28_OneLogLinePerRequest ==
    /\ [](/\ logLines + Cardinality(BeforeLog) = textPosts
          /\ \A c \in Conns :
                LET r == conn[c].req
                IN /\ (conn[c].pc \in {"encode", "respond"} \/
                         (Done(c) /\ GeneratePost(r)
                                  /\ FirstText(r.query) # << >>)) =>
                         conn[c].logged = <<FirstText(r.query)>>
                   /\ (conn[c].pc = "log" \/
                         (Done(c) /\ conn[c].resp.status \in {400, 405})) =>
                         conn[c].logged = << >>
                   /\ conn[c].res.invoked # << >> => conn[c].logged # << >>)
    /\ [][mainPc = "serve" =>
             /\ routes' = routes /\ qrGen' = qrGen
             /\ logLines' \in {logLines, logLines + 1}]_vars

\* one line was written for a request whose encoding failed and one for a
\* request whose encoding succeeded
C28_Witness ==
    \E c, d \in Conns :
        /\ Done(c) /\ EncoderFailed(c) /\ conn[c].logged = <<Hello>>
        /\ Done(d) /\ Encoded(d) /\ conn[d].logged = <<Special>>
        /\ logLines = 2

\* C29: the three routes are registered before the server starts to accept
\* connections and the route table is not modified afterwards, so no
\* request is dispatched against a table that is not complete.
C29_RoutesBeforeServing ==
    /\ [](mainPc = "serve" => routes = {HealthPath, GeneratePath, RootPath})
    /\ [](\A c \in Conns :
             conn[c].pc # "idle" =>
                routes = {HealthPath, GeneratePath, RootPath})
    /\ [][(mainPc' = "serve" /\ mainPc # "serve") =>
             (mainPc = "listen" /\ served = 0
                /\ routes = {HealthPath, GeneratePath, RootPath})]_vars
    /\ [][mainPc = "serve" => routes' = routes]_vars

\* a request was dispatched to each of two handlers of the complete table
C29_Witness ==
    /\ mainPc = "serve" /\ routes = Registered
    /\ \E c, d \in Conns :
          /\ Done(c) /\ conn[c].req.path = HealthPath
          /\ conn[c].resp.status = 200
          /\ conn[d].pc = "encode"

=============================================================================
